---- MODULE Spec2Model ----
(***************************************************************************)
(* Model of example/real_nvp.ipynb: the notebook's code cells executed top *)
(* to bottom.  The state is the notebook's global namespace (flows, z,     *)
(* z_np, the three metric histories, it, loss, ...), the framework objects *)
(* it owns (the model parameters, their gradient buffer, the figures that  *)
(* were shown) and pc, the position of the interpreter.                    *)
(*                                                                         *)
(* Tensor values are kept symbolically:                                    *)
(*  - the model parameters are identified by `params`, the number of       *)
(*    optimizer updates they have received;                                *)
(*  - a tensor computed by a forward pass carries the parameter version it *)
(*    was computed from (field ver);                                       *)
(*  - the gradient buffer is the sequence of iterations whose loss has     *)
(*    been back-propagated into it since it was last zeroed;               *)
(*  - the loss is the pair of coefficients applied to mean_log_q and       *)
(*    mean_log_p, as integers over the common denominator                  *)
(*    100 * anneal_iter (the float expression 0.01 + it / anneal_iter is   *)
(*    (anneal_iter + 100 * it) / (100 * anneal_iter) exactly).             *)
(***************************************************************************)
EXTENDS Integers, Sequences, FiniteSets

\* ---------------------------------------------------------------- constants
\* cell 2: number of flow layers
K == 8
\* cell 4: the configured training parameters
max_iter_cfg == 20000
anneal_iter_cfg == 10000
show_iter_cfg == 500

\* ------------------------------------------------------------------- bounds
\* besides the configured run, every small configuration within these bounds
MaxIter == 6
MaxShow == 4
MaxAnneal == 4

VARIABLES pc, i, flows, built, params, grad, used_grad,
          z, z_np, figs,
          max_iter, show_iter, anneal_iter, annealing,
          it, mean_log_q, mean_log_p, loss,
          loss_hist, log_q_hist, log_p_hist,
          n_zero, n_fwd, n_bwd, n_sample

vars == <<pc, i, flows, built, params, grad, used_grad,
          z, z_np, figs,
          max_iter, show_iter, anneal_iter, annealing,
          it, mean_log_q, mean_log_p, loss,
          loss_hist, log_q_hist, log_p_hist,
          n_zero, n_fwd, n_bwd, n_sample>>

\* a name that is not bound yet
None == [kind |-> "none"]

\* ------------------------------------------------------------ configuration
\* the values of max_iter, anneal_iter, annealing, show_iter (cell 4)
Configs ==
    {[max_iter |-> max_iter_cfg, show_iter |-> show_iter_cfg,
      anneal_iter |-> anneal_iter_cfg, annealing |-> TRUE]}
    \cup
    [max_iter : 0..MaxIter, show_iter : 1..MaxShow,
     anneal_iter : 1..MaxAnneal, annealing : BOOLEAN]

\* ------------------------------------------------------------------ cell 2
\* b = torch.tensor([0, 1])
b == <<0, 1>>

\* 1 - b, elementwise
Complement(m) == [d \in DOMAIN m |-> 1 - m[d]]

FlowMaskSame(j) == b

\* the mask handed to MaskedAffineFlow for layer index j (0-based)
FlowMask(j) == IF j % 2 = 0 THEN b ELSE Complement(b)

\* one MaskedAffineFlow with its own scale and translation networks
FlowLayer(j) == [mask |-> FlowMask(j), s |-> 2 * j, t |-> 2 * j + 1]

Bump(f, e) == [f EXCEPT ![e] = @ + 1]

Entities == {"flow", "prior", "q0", "nfm", "optimizer"}

Init ==
    /\ pc = "build"
    /\ i = 0
    /\ flows = << >>
    /\ built = [e \in Entities |-> 0]
    /\ params = 0
    /\ grad = << >>
    /\ used_grad = << >>
    /\ z = None
    /\ z_np = None
    /\ figs = << >>
    /\ \E c \in Configs :
          /\ max_iter = c.max_iter
          /\ show_iter = c.show_iter
          /\ anneal_iter = c.anneal_iter
          /\ annealing = c.annealing
    /\ it = -1
    /\ mean_log_q = None
    /\ mean_log_p = None
    /\ loss = None
    /\ loss_hist = << >>
    /\ log_q_hist = << >>
    /\ log_p_hist = << >>
    /\ n_zero = 0
    /\ n_fwd = 0
    /\ n_bwd = 0
    /\ n_sample = 0

cfgVars == <<max_iter, show_iter, anneal_iter, annealing>>
trainVars == <<it, mean_log_q, mean_log_p, loss, grad, used_grad,
               n_zero, n_fwd, n_bwd>>
histVars == <<loss_hist, log_q_hist, log_p_hist>>
plotVars == <<z, z_np, figs, n_sample>>

\* one pass of `for i in range(K)`: build s, t and append the layer
BuildFlow ==
    /\ pc = "build"
    /\ i < K
    /\ flows' = Append(flows, FlowLayer(i))
    /\ built' = Bump(built, "flow")
    /\ i' = i + 1
    /\ UNCHANGED <<pc, params, cfgVars, trainVars, histVars, plotVars>>

\* range(K) exhausted: prior, q0, nfm = NormalizingFlow(...), nfm.to(device)
AssembleModel ==
    /\ pc = "build"
    /\ i >= K
    /\ built' = Bump(Bump(Bump(built, "prior"), "q0"), "nfm")
    /\ pc' = "plot_prior"
    /\ UNCHANGED <<i, flows, params, cfgVars, trainVars, histVars, plotVars>>

\* ------------------------------------------------------------------ cell 3
\* a figure handed to plt.show(): what was drawn, in which step, and (for a
\* figure of the training loop) in which iteration
Fig(kind, data, at, iter) == [kind |-> kind, data |-> data, at |-> at, iter |-> iter]

\* z, _, _ = nfm(torch.zeros(512), num_samples=512): the n-th sample drawn
\* for plotting, from the parameters p
Sample(p, n) == [kind |-> "sample", ver |-> p, draw |-> n]

\* t.to('cpu').data.numpy(): the same values as a host array
ToNumpy(t) == [kind |-> "ndarray", ver |-> t.ver, draw |-> t.draw]

\* z = grid, log_prob = prior.log_prob(z), pcolormesh of the target density
PlotPrior ==
    /\ pc = "plot_prior"
    /\ z' = [kind |-> "grid"]
    /\ figs' = Append(figs, Fig("pcolormesh", [kind |-> "prob"], "prior", -1))
    /\ pc' = "plot_initial"
    /\ UNCHANGED <<i, flows, built, params, cfgVars, trainVars, histVars,
                   z_np, n_sample>>

\* sample the untrained model and show its histogram
PlotInitial ==
    /\ pc = "plot_initial"
    /\ n_sample' = n_sample + 1
    /\ z' = Sample(params, n_sample + 1)
    /\ z_np' = ToNumpy(z')
    /\ figs' = Append(figs, Fig("hist2d", z_np', "initial", -1))
    /\ pc' = "train_init"
    /\ UNCHANGED <<i, flows, built, params, cfgVars, trainVars, histVars>>

\* ------------------------------------------------------------------ cell 4
\* empty histories, x, optimizer = torch.optim.Adam(nfm.parameters(), ...)
TrainInit ==
    /\ pc = "train_init"
    /\ loss_hist' = << >>
    /\ log_q_hist' = << >>
    /\ log_p_hist' = << >>
    /\ built' = Bump(built, "optimizer")
    /\ it' = -1
    /\ pc' = "for"
    /\ UNCHANGED <<i, flows, params, cfgVars, mean_log_q, mean_log_p, loss,
                   grad, used_grad, n_zero, n_fwd, n_bwd, plotVars>>

RangeHasNextOffByOne(last, n) == last + 1 <= n

\* does range(n) yield another item after `last` (-1: nothing yielded yet)
RangeHasNext(last, n) == last + 1 < n

ForNextNewOptimizer ==
    /\ pc = "for"
    /\ RangeHasNext(it, max_iter)
    /\ it' = it + 1
    /\ built' = Bump(built, "optimizer")
    /\ pc' = "zero_grad"
    /\ UNCHANGED <<i, flows, params, cfgVars, mean_log_q, mean_log_p,
                   loss, grad, used_grad, n_zero, n_fwd, n_bwd, histVars,
                   plotVars>>

\* `for it in range(max_iter)`: bind the next item and enter the body
ForNext ==
    /\ pc = "for"
    /\ RangeHasNext(it, max_iter)
    /\ it' = it + 1
    /\ pc' = "zero_grad"
    /\ UNCHANGED <<i, flows, built, params, cfgVars, mean_log_q, mean_log_p,
                   loss, grad, used_grad, n_zero, n_fwd, n_bwd, histVars,
                   plotVars>>

\* range(max_iter) exhausted: leave the loop, `it` keeps its last value
ForExit ==
    /\ pc = "for"
    /\ ~RangeHasNext(it, max_iter)
    /\ pc' = "plot_metrics"
    /\ UNCHANGED <<i, flows, built, params, cfgVars, trainVars, histVars,
                   plotVars>>

ZeroedGradKept(g) == g

\* the gradient buffer after optimizer.zero_grad()
ZeroedGrad(g) == << >>

\* optimizer.zero_grad()
ZeroGrad ==
    /\ pc = "zero_grad"
    /\ grad' = ZeroedGrad(grad)
    /\ n_zero' = n_zero + 1
    /\ pc' = "forward"
    /\ UNCHANGED <<i, flows, built, params, cfgVars, it, mean_log_q,
                   mean_log_p, loss, used_grad, n_fwd, n_bwd, histVars,
                   plotVars>>

\* torch.mean of a log-density returned by nfm(x, num_samples), computed in
\* iteration j from the parameters p
MeanLog(term, p, j) == [kind |-> term, ver |-> p, it |-> j]

\* _, log_q, log_p = nfm(x, num_samples); mean_log_q, mean_log_p
Forward ==
    /\ pc = "forward"
    /\ mean_log_q' = MeanLog("log_q", params, it)
    /\ mean_log_p' = MeanLog("log_p", params, it)
    /\ n_fwd' = n_fwd + 1
    /\ pc' = "loss"
    /\ UNCHANGED <<i, flows, built, params, cfgVars, it, loss, grad,
                   used_grad, n_zero, n_bwd, histVars, plotVars>>

Min(a, c) == IF a <= c THEN a ELSE c

\* denominator of the anneal weight: 0.01 + j / a = (a + 100 j) / (100 a)
WeightDen(a) == 100 * a

WeightNumNoMin(j, a) == a + 100 * j

\* numerator of np.min([1., 0.01 + j / a]) over WeightDen(a)
WeightNum(j, a) == Min(WeightDen(a), a + 100 * j)

LossConvex(ann, j, a, mq, mp) ==
    IF ann
    THEN [kind |-> "loss", cq |-> WeightDen(a) - WeightNum(j, a),
          cp |-> WeightNum(j, a),
          den |-> WeightDen(a), log_q |-> mq, log_p |-> mp, it |-> j]
    ELSE [kind |-> "loss", cq |-> 1, cp |-> 0 - 1,
          den |-> 1, log_q |-> mq, log_p |-> mp, it |-> j]

LossNextWeight(ann, j, a, mq, mp) ==
    IF ann
    THEN [kind |-> "loss", cq |-> WeightDen(a), cp |-> 0 - WeightNum(j + 1, a),
          den |-> WeightDen(a), log_q |-> mq, log_p |-> mp, it |-> j]
    ELSE [kind |-> "loss", cq |-> 1, cp |-> 0 - 1,
          den |-> 1, log_q |-> mq, log_p |-> mp, it |-> j]

\* the loss of iteration j: (cq * mean_log_q + cp * mean_log_p) / den
Loss(ann, j, a, mq, mp) ==
    IF ann
    THEN [kind |-> "loss", cq |-> WeightDen(a), cp |-> 0 - WeightNum(j, a),
          den |-> WeightDen(a), log_q |-> mq, log_p |-> mp, it |-> j]
    ELSE [kind |-> "loss", cq |-> 1, cp |-> 0 - 1,
          den |-> 1, log_q |-> mq, log_p |-> mp, it |-> j]

\* if annealing: loss = ... else: loss = ...
ComputeLoss ==
    /\ pc = "loss"
    /\ loss' = Loss(annealing, it, anneal_iter, mean_log_q, mean_log_p)
    /\ pc' = "backward"
    /\ UNCHANGED <<i, flows, built, params, cfgVars, it, mean_log_q,
                   mean_log_p, grad, used_grad, n_zero, n_fwd, n_bwd,
                   histVars, plotVars>>

\* loss.backward(): the gradient of the loss is added into the buffer
Backward ==
    /\ pc = "backward"
    /\ grad' = Append(grad, loss.it)
    /\ n_bwd' = n_bwd + 1
    /\ pc' = "step"
    /\ UNCHANGED <<i, flows, built, params, cfgVars, it, mean_log_q,
                   mean_log_p, loss, used_grad, n_zero, n_fwd, histVars,
                   plotVars>>

\* optimizer.step(): one parameter update from the gradient buffer
OptStep ==
    /\ pc = "step"
    /\ params' = params + 1
    /\ used_grad' = grad
    /\ pc' = "check"
    /\ UNCHANGED <<i, flows, built, cfgVars, it, mean_log_q, mean_log_p,
                   loss, grad, n_zero, n_fwd, n_bwd, histVars, plotVars>>

IsCheckpointAtStart(j, sh) == j % sh = 0

\* (it + 1) % show_iter == 0
IsCheckpoint(j, sh) == (j + 1) % sh = 0

\* the condition holds: torch.cuda.manual_seed(0), z = nfm(...), z_np
CheckpointSample ==
    /\ pc = "check"
    /\ IsCheckpoint(it, show_iter)
    /\ n_sample' = n_sample + 1
    /\ z' = Sample(params, n_sample + 1)
    /\ z_np' = ToNumpy(z')
    /\ pc' = "ckpt_show"
    /\ UNCHANGED <<i, flows, built, params, cfgVars, trainVars, histVars,
                   figs>>

\* plt.figure, plt.hist2d(z_np ...), plt.show()
CheckpointShow ==
    /\ pc = "ckpt_show"
    /\ figs' = Append(figs, Fig("hist2d", z_np, "checkpoint", it))
    /\ pc' = "append_loss"
    /\ UNCHANGED <<i, flows, built, params, cfgVars, trainVars, histVars,
                   z, z_np, n_sample>>

\* loss_hist = np.append(loss_hist, loss...)
AppendLoss ==
    /\ pc = "append_loss"
    /\ loss_hist' = Append(loss_hist, loss)
    /\ pc' = "append_log_q"
    /\ UNCHANGED <<i, flows, built, params, cfgVars, trainVars, log_q_hist,
                   log_p_hist, plotVars>>

\* log_q_hist = np.append(log_q_hist, mean_log_q...)
AppendLogQ ==
    /\ pc = "append_log_q"
    /\ log_q_hist' = Append(log_q_hist, mean_log_q)
    /\ pc' = "append_log_p"
    /\ UNCHANGED <<i, flows, built, params, cfgVars, trainVars, loss_hist,
                   log_p_hist, plotVars>>

\* log_p_hist = np.append(log_p_hist, mean_log_p...): end of the body
AppendLogP ==
    /\ pc = "append_log_p"
    /\ log_p_hist' = Append(log_p_hist, mean_log_p)
    /\ pc' = "for"
    /\ UNCHANGED <<i, flows, built, params, cfgVars, trainVars, loss_hist,
                   log_q_hist, plotVars>>

\* the condition is false: nothing is drawn or recorded in this iteration
SkipCheckpoint ==
    /\ pc = "check"
    /\ ~IsCheckpoint(it, show_iter)
    /\ pc' = "for"
    /\ UNCHANGED <<i, flows, built, params, cfgVars, trainVars, histVars,
                   plotVars>>

\* after the loop: plot the three histories
PlotMetrics ==
    /\ pc = "plot_metrics"
    /\ figs' = Append(figs, Fig("plot",
                  [kind |-> "hists", loss |-> loss_hist, log_q |-> log_q_hist,
                   log_p |-> log_p_hist], "metrics", -1))
    /\ pc' = "plot_final"
    /\ UNCHANGED <<i, flows, built, params, cfgVars, trainVars, histVars,
                   z, z_np, n_sample>>

\* ------------------------------------------------------------------ cell 5
FinalSourceResample(zz, p, n) == Sample(p, n + 1)

\* the tensor the last cell converts and plots (its nfm(...) line is a comment)
FinalSource(zz, p, n) == zz

\* z_np = z.to('cpu').data.numpy(); hist2d; show
PlotFinal ==
    /\ pc = "plot_final"
    /\ z_np' = ToNumpy(FinalSource(z, params, n_sample))
    /\ figs' = Append(figs, Fig("hist2d", z_np', "final", -1))
    /\ pc' = "done"
    /\ UNCHANGED <<i, flows, built, params, cfgVars, trainVars, histVars,
                   z, n_sample>>

Next ==
    \/ BuildFlow
    \/ AssembleModel
    \/ PlotPrior
    \/ PlotInitial
    \/ TrainInit
    \/ ForNext
    \/ ForExit
    \/ ZeroGrad
    \/ Forward
    \/ ComputeLoss
    \/ Backward
    \/ OptStep
    \/ CheckpointSample
    \/ CheckpointShow
    \/ AppendLoss
    \/ AppendLogQ
    \/ AppendLogP
    \/ SkipCheckpoint
    \/ PlotMetrics
    \/ PlotFinal

Spec == Init /\ [][Next]_vars

\* the cells run to completion: every statement that can run eventually does
FairSpec == Spec /\ WF_vars(Next)

\* ------------------------------------------------------------- properties
\* inside the checkpoint block, after its condition was found true
InCheckpoint == pc \in {"ckpt_show", "append_loss", "append_log_q", "append_log_p"}
InBody ==
    \/ pc \in {"zero_grad", "forward", "loss", "backward", "step", "check"}
    \/ InCheckpoint
\* the loss of the current iteration has been computed
LossComputed == pc \in {"backward", "step", "check"} \/ InCheckpoint
LoopExited == pc \in {"plot_metrics", "plot_final", "done"}
Configured ==
    /\ max_iter = max_iter_cfg
    /\ show_iter = show_iter_cfg
    /\ anneal_iter = anneal_iter_cfg
    /\ annealing

\* the figures shown by the checkpoint block, in order
CheckpointFigs == SelectSeq(figs, LAMBDA f : f.at = "checkpoint")

IsPrefix(h, g) == Len(h) <= Len(g) /\ SubSeq(g, 1, Len(h)) = h

C1_Counts ==
    /\ InBody => 0 <= it /\ it < max_iter
    /\ pc = "for" =>
          /\ n_fwd = it + 1
          /\ n_bwd = it + 1
          /\ params = it + 1
    /\ LoopExited =>
          /\ it = max_iter - 1
          /\ n_fwd = max_iter
          /\ n_bwd = max_iter
          /\ params = max_iter
          /\ (Configured => params = 20000)

\* C1: the training loop terminates after exactly max_iter iterations
\* (it = 0 .. max_iter-1), each with one forward pass for the loss, one
\* backward pass and one optimizer step, so that on loop exit the model has
\* received exactly max_iter optimizer steps (20000 as configured).
C1_Terminates == [](C1_Counts) /\ <>(LoopExited)

C1_Witness == pc = "done" /\ Configured /\ params = 20000 /\ n_bwd = 20000

C2_State ==
    (annealing /\ LossComputed) =>
        LET w == 0 - loss.cp
            d == loss.den
        IN  /\ loss.it = it
            /\ d = 100 * anneal_iter
            /\ d <= 100 * w
            /\ w <= d
            /\ (it = 0 => 100 * w = d)
            /\ (w < d <=> 100 * it < 99 * anneal_iter)
            /\ (100 * it >= 99 * anneal_iter =>
                  LET na == Loss(FALSE, it, anneal_iter, mean_log_q, mean_log_p)
                  IN  /\ loss.cq * na.den = na.cq * loss.den
                      /\ loss.cp * na.den = na.cp * loss.den)

C2_Step ==
    (annealing /\ loss.kind = "loss" /\ loss'.kind = "loss") =>
        /\ loss'.den = loss.den
        /\ 0 - loss.cp <= 0 - loss'.cp

\* C2: with annealing, the weight w(it) = min(1, 0.01 + it/anneal_iter) on
\* mean_log_p satisfies 0.01 <= w <= 1, w(0) = 0.01, is non-decreasing in it,
\* is below 1 exactly when 100*it < 99*anneal_iter and is 1 afterwards, where
\* the annealed loss equals mean_log_q - mean_log_p.
C2_AnnealWeight == [](C2_State) /\ [][C2_Step]_vars

C2_Witness ==
    /\ pc = "check" /\ Configured /\ it = 9900
    /\ 0 - loss.cp = loss.den

\* C3 as stated: the two coefficients of the loss are both non-negative and
\* sum to 1 (a convex combination of mean_log_q and mean_log_p).
C3_Convex ==
    LossComputed =>
        /\ loss.cq >= 0
        /\ loss.cp >= 0
        /\ loss.cq + loss.cp = loss.den

\* C3 (amended): the loss is the linear combination with coefficient exactly 1
\* on mean_log_q and coefficient -w on mean_log_p, w = min(1, 0.01 +
\* it/anneal_iter) with annealing and w = 1 without: the second coefficient is
\* negative, in [-1, -0.01], and the coefficients sum to 1 - w in [0, 0.99].
C3_Linear ==
    LossComputed =>
        /\ loss.it = it
        /\ loss.log_q = mean_log_q
        /\ loss.log_p = mean_log_p
        /\ loss.den > 0
        /\ loss.cq = loss.den
        /\ loss.cp < 0
        /\ 0 - loss.cp <= loss.den
        /\ loss.den <= 100 * (0 - loss.cp)
        /\ loss.cq + loss.cp >= 0
        /\ 100 * (loss.cq + loss.cp) <= 99 * loss.den
        /\ (annealing =>
              /\ loss.den = 100 * anneal_iter
              /\ (100 * it < 99 * anneal_iter =>
                     0 - loss.cp = anneal_iter + 100 * it)
              /\ (100 * it >= 99 * anneal_iter => 0 - loss.cp = loss.den))
        /\ (~annealing => 0 - loss.cp = loss.den)

C3_Witness ==
    /\ pc = "backward" /\ annealing /\ it = 1 /\ anneal_iter = 4
    /\ loss.cq = 400 /\ loss.cp = 0 - 104

\* C4: model assembly builds exactly K = 8 layers in index order, layer i with
\* mask [0, 1] for even i and [1, 0] for odd i; consecutive layers have
\* complementary masks, every mask is binary and each of the two dimensions is
\* masked in exactly K/2 layers.
C4_Masks ==
    /\ pc = "build" => Len(flows) = i
    /\ pc # "build" => Len(flows) = K /\ K = 8 /\ built["flow"] = K
    /\ \A j \in 1..Len(flows) :
          /\ flows[j].mask = IF (j - 1) % 2 = 0 THEN <<0, 1>> ELSE <<1, 0>>
          /\ \A d \in 1..2 : flows[j].mask[d] \in {0, 1}
          /\ flows[j].s = 2 * (j - 1)
    /\ \A j \in 1..(Len(flows) - 1) :
          \A d \in 1..2 : flows[j].mask[d] + flows[j + 1].mask[d] = 1
    /\ pc # "build" =>
          \A d \in 1..2 :
             2 * Cardinality({j \in 1..K : flows[j].mask[d] = 1}) = K

C4_Witness ==
    /\ pc = "plot_prior" /\ Len(flows) = 8
    /\ flows[7].mask = <<0, 1>> /\ flows[8].mask = <<1, 0>>

\* what holds of the histories wherever the interpreter stands
C5_Common ==
    /\ pc = "for" => Len(loss_hist) = (it + 1) \div show_iter
    /\ LoopExited =>
          /\ Len(loss_hist) = max_iter \div show_iter
          /\ (Configured => Len(loss_hist) = 40)
    /\ \A k \in 1..Len(loss_hist) : loss_hist[k].it = k * show_iter - 1
    /\ \A k \in 1..Len(log_q_hist) : log_q_hist[k].it = k * show_iter - 1
    /\ \A k \in 1..Len(log_p_hist) : log_p_hist[k].it = k * show_iter - 1
    /\ \A k \in 1..Len(CheckpointFigs) :
          /\ CheckpointFigs[k].kind = "hist2d"
          /\ CheckpointFigs[k].iter = k * show_iter - 1

\* C5 as stated: at every point of the run the three histories have the same
\* length, that length is
\* floor((it + 1) / show_iter) after iteration it and floor(max_iter /
\* show_iter) on loop exit, and the entries and the figures are those of the
\* iterations it with (it + 1) % show_iter = 0.
C5_SameLengthAlways ==
    /\ C5_Common
    /\ Len(log_q_hist) = Len(loss_hist)
    /\ Len(log_p_hist) = Len(loss_hist)
    /\ \A k \in 1..Len(loss_hist) : CheckpointFigs[k].iter = loss_hist[k].it

C5_State ==
    /\ C5_Common
    /\ (pc \notin {"append_log_q", "append_log_p"}) =>
          /\ Len(log_q_hist) = Len(loss_hist)
          /\ Len(log_p_hist) = Len(loss_hist)
    /\ pc = "append_log_q" =>
          /\ Len(loss_hist) = Len(log_q_hist) + 1
          /\ Len(log_p_hist) = Len(log_q_hist)
    /\ pc = "append_log_p" =>
          /\ Len(loss_hist) = Len(log_p_hist) + 1
          /\ Len(log_q_hist) = Len(log_p_hist) + 1
    /\ (pc \in {"append_loss", "append_log_q", "append_log_p"}) =>
          Len(CheckpointFigs) = Len(log_p_hist) + 1
    /\ (pc \notin {"append_loss", "append_log_q", "append_log_p"}) =>
          Len(CheckpointFigs) = Len(log_p_hist)
    /\ (InBody /\ pc # "append_log_p") => Len(log_q_hist) = it \div show_iter
    /\ InBody => Len(log_p_hist) = it \div show_iter
    /\ InCheckpoint => (it + 1) % show_iter = 0
    /\ \A k \in 1..Len(loss_hist) : CheckpointFigs[k].iter = loss_hist[k].it

C5_Step ==
    /\ IsPrefix(loss_hist, loss_hist')
    /\ IsPrefix(log_q_hist, log_q_hist')
    /\ IsPrefix(log_p_hist, log_p_hist')
    /\ Len(loss_hist') <= Len(loss_hist) + 1
    /\ Len(log_q_hist') <= Len(log_q_hist) + 1
    /\ Len(log_p_hist') <= Len(log_p_hist) + 1
    /\ Len(loss_hist') # Len(loss_hist) => IsCheckpoint(it, show_iter)
    /\ Len(CheckpointFigs') # Len(CheckpointFigs) => IsCheckpoint(it, show_iter)

\* C5 (amended): the metrics are recorded exactly at the iterations it with
\* (it + 1) % show_iter = 0.  Between iterations (at the loop head, in the
\* body before the appends, and after the loop) the three histories have the
\* same length, floor((it + 1) / show_iter) after iteration it and
\* floor(max_iter / show_iter) on loop exit (40 as configured); inside the
\* checkpoint block they are appended one after the other (loss_hist,
\* log_q_hist, log_p_hist), so their lengths differ by at most one there, and
\* the figure is shown before the first append.  Entries are only appended,
\* and a histogram is drawn in exactly the same iterations.
C5_Checkpoints == [](C5_State) /\ [][C5_Step]_vars

C5_Witness ==
    /\ pc = "append_log_p" /\ Configured /\ it = 19999
    /\ Len(loss_hist) = 40 /\ Len(log_q_hist) = 40 /\ Len(log_p_hist) = 39
    /\ loss_hist[40].it = 19999
    /\ Len(CheckpointFigs) = 40

\* the figure shown by the last cell
FinalFig == figs[Len(figs)]

\* C6 as stated: after the training loop the last cell draws a new sample from
\* the trained model and plots that newly drawn sample.
C6_Resamples ==
    pc = "done" =>
        /\ FinalFig.at = "final"
        /\ n_sample = 1 + Len(loss_hist) + 1
        /\ FinalFig.data = ToNumpy(Sample(params, n_sample))

\* C6 (amended): the last cell draws no new sample: it runs no forward pass of
\* the model and plots the sample z it already holds, which is the most
\* recently drawn one (that of the last checkpoint, or the pre-training sample
\* if there was no checkpoint).
C6_PlotsHeldSample ==
    pc = "done" =>
        /\ FinalFig.at = "final"
        /\ FinalFig.kind = "hist2d"
        /\ n_sample = 1 + Len(loss_hist)
        /\ z.kind = "sample"
        /\ z.draw = n_sample
        /\ FinalFig.data = ToNumpy(z)
        /\ FinalFig.data = figs[Len(figs) - 2].data
        /\ figs[Len(figs) - 2].at \in {"initial", "checkpoint"}
        /\ z_np = FinalFig.data

C6_Witness ==
    /\ pc = "done" /\ Configured
    /\ n_sample = 41 /\ FinalFig.data.draw = 41 /\ z.draw = 41

C7_State ==
    /\ \A e \in Entities \ {"flow"} : built[e] <= 1
    /\ built["flow"] = Len(flows)
    /\ Len(flows) <= K
    /\ \A j, k \in 1..Len(flows) :
          j # k => {flows[j].s, flows[j].t} \cap {flows[k].s, flows[k].t} = {}
    /\ pc \notin {"build"} =>
          built["prior"] = 1 /\ built["q0"] = 1 /\ built["nfm"] = 1
          /\ built["flow"] = K
    /\ pc \in {"build", "plot_prior", "plot_initial", "train_init"} =>
          built["optimizer"] = 0 /\ params = 0
    /\ (pc = "for" \/ InBody \/ LoopExited) => built["optimizer"] = 1

C7_Step ==
    /\ params' # params => (pc = "step" /\ pc' = "check" /\ params' = params + 1)
    /\ (pc \in {"plot_initial", "check", "plot_final"} \/ InCheckpoint) =>
          params' = params

\* C7: the prior, base distribution, flow layers, model and optimizer are each
\* constructed exactly once, and the model parameters change only in
\* optimizer.step inside the training loop: the pre-training sampling, the
\* checkpoint sampling and the after-training plot leave them unchanged.
C7_Frame == [](C7_State) /\ [][C7_Step]_vars

C7_Witness ==
    /\ pc = "done" /\ Configured /\ params = 20000
    /\ \A e \in Entities \ {"flow"} : built[e] = 1
    /\ built["flow"] = 8

C8_State ==
    /\ pc = "zero_grad" => n_zero = it /\ n_fwd = it
    /\ pc = "forward" =>
          n_zero = it + 1 /\ n_fwd = it /\ grad = << >>
    /\ pc = "loss" =>
          n_fwd = it + 1 /\ mean_log_q.it = it /\ n_bwd = it
          /\ (it > 0 => loss.it = it - 1)
    /\ pc = "backward" => loss.it = it /\ n_bwd = it /\ grad = << >>
    /\ pc = "step" => n_bwd = it + 1 /\ params = it /\ grad = <<it>>
    /\ (pc = "check" \/ InCheckpoint) =>
          params = it + 1 /\ used_grad = <<it>> /\ grad = <<it>>
    /\ params > 0 => used_grad = <<params - 1>>

C8_Step ==
    /\ (pc = "check" \/ InCheckpoint) =>
          grad' = grad /\ n_bwd' = n_bwd /\ used_grad' = used_grad
    /\ params' # params => used_grad' = <<it>> /\ grad = <<it>>

\* C8: each iteration runs zero_grad, forward, loss, backward, step in this
\* order, and the gradient consumed by the optimizer step of iteration it
\* comes from the loss of iteration it alone: nothing accumulates from
\* earlier iterations, and checkpoint sampling never calls backward.
C8_FreshGradient == [](C8_State) /\ [][C8_Step]_vars

C8_Witness ==
    /\ pc = "check" /\ Configured /\ it = 19999
    /\ used_grad = <<19999>> /\ Len(loss_hist) = 39

\* C9: the sample plotted by the last cell is the one last assigned to z: the
\* sample of the last checkpoint, drawn after show_iter * floor(max_iter /
\* show_iter) optimizer steps, or the pre-training sample when max_iter <
\* show_iter; it reflects all max_iter steps iff show_iter divides max_iter,
\* as it does for the configured 20000 and 500.
C9_FinalSample ==
    pc = "done" =>
        /\ FinalFig.at = "final"
        /\ FinalFig.data.ver = show_iter * (max_iter \div show_iter)
        /\ (max_iter < show_iter =>
              /\ FinalFig.data.draw = 1
              /\ FinalFig.data = figs[2].data
              /\ figs[2].at = "initial")
        /\ (max_iter >= show_iter =>
              LET last == CheckpointFigs[Len(CheckpointFigs)]
              IN  /\ FinalFig.data = last.data
                  /\ last.iter = show_iter * (max_iter \div show_iter) - 1)
        /\ (FinalFig.data.ver = params <=> max_iter % show_iter = 0)
        /\ (Configured => FinalFig.data.ver = 20000 /\ params = 20000)

C9_Witness ==
    /\ pc = "done" /\ max_iter = 5 /\ show_iter = 3
    /\ params = 5 /\ FinalFig.data.ver = 3

\* C10: at every checkpoint (iteration it with (it + 1) % show_iter = 0) the
\* recorded loss, mean_log_q and mean_log_p were computed before that
\* iteration's optimizer step, from the model after exactly it steps, with the
\* anneal weight of iteration it, while the sample plotted at the same
\* checkpoint was drawn after the step, from the model after it + 1 steps.
C10_CheckpointVersions ==
  /\ \A k \in 1..Len(CheckpointFigs) :
        /\ CheckpointFigs[k].iter = k * show_iter - 1
        /\ CheckpointFigs[k].data.ver = k * show_iter
  /\ \A k \in 1..Len(loss_hist) :
        LET j == k * show_iter - 1
            l == loss_hist[k]
        IN  /\ (j + 1) % show_iter = 0
            /\ l.it = j
            /\ l.log_q = [kind |-> "log_q", ver |-> j, it |-> j]
            /\ l.log_p = [kind |-> "log_p", ver |-> j, it |-> j]
            /\ (k <= Len(log_q_hist) => log_q_hist[k] = l.log_q)
            /\ (k <= Len(log_p_hist) => log_p_hist[k] = l.log_p)
            /\ (pc \notin {"append_log_q", "append_log_p"} =>
                   k <= Len(log_q_hist) /\ k <= Len(log_p_hist))
            /\ (annealing =>
                  /\ l.den = 100 * anneal_iter
                  /\ l.cq = l.den
                  /\ 0 - l.cp = Min(100 * anneal_iter, anneal_iter + 100 * j))
            /\ (~annealing => l.cq = l.den /\ l.cp = 0 - l.den)
            /\ k <= Len(CheckpointFigs)
            /\ CheckpointFigs[k].iter = j
            /\ CheckpointFigs[k].data.ver = j + 1

C10_Witness ==
    /\ pc = "for" /\ annealing /\ show_iter = 2 /\ anneal_iter = 4 /\ it = 3
    /\ Len(loss_hist) = 2
    /\ loss_hist[2].log_q.ver = 3 /\ 0 - loss_hist[2].cp = 304
    /\ CheckpointFigs[2].data.ver = 4
====
